---- MODULE Spec2Model ----
(***************************************************************************)
(* Model of the pull-request review reminder action (src/index.js).        *)
(*                                                                         *)
(* Text is modelled as a sequence of tokens: a token is either a literal   *)
(* fragment of a template string, or a character or a word of an input,   *)
(* and string concatenation is \o.  A JavaScript value is a record: a string   *)
(* is Str(s), and undefined, functions and objects are the other shapes of *)
(* that record; a JavaScript number is Num(n) or NaN.                      *)
(***************************************************************************)
EXTENDS Integers, Sequences, FiniteSets, TLC

VARIABLES
    pc,                     \* position of the run / of the call under study
    pullRequests,           \* the pull requests given to a filter or fetched
    ignoreLabel,            \* input "ignore-label"
    waitingTime,            \* input "waiting-time"
    now,                    \* the clock read by new Date()
    github2providerString,  \* input "github-provider-map"
    github2provider,        \* the identity map given to prettyMessage
    pr2user,                \* the recipients given to prettyMessage
    provider,               \* the provider tag given to prettyMessage
    ret,                    \* what the call under study returned or threw
    fetchCalls,             \* number of getPullRequests() calls issued
    sendCalls,              \* number of sendNotification() calls issued
    sent,                   \* the payloads handed to sendNotification()
    failedMsgs,             \* the messages given to core.setFailed
    infoLog                 \* the messages given to core.info

vars == << pc, pullRequests, ignoreLabel, waitingTime, now,
           github2providerString, github2provider, pr2user, provider, ret,
           fetchCalls, sendCalls, sent, failedMsgs, infoLog >>

----------------------------------------------------------------------------
(* Bounds of the model *)

MaxPRs == 2            \* longest sequence of pull requests
MaxHalfDays == 4       \* created_at ranges over 0..MaxHalfDays half days
MaxWaitingTime == 2    \* waitingTime ranges over 0..MaxWaitingTime
MaxLen == 5            \* longest github-provider-map string, in characters
MaxRecipients == 2     \* longest sequence of recipients

----------------------------------------------------------------------------
(* JavaScript values *)

Undefined == [t |-> "undefined", s |-> <<"undefined">>]
Str(s) == [t |-> "string", s |-> s]
\* Object.prototype.constructor, and its string conversion
ObjectFunction == [t |-> "function", s |-> <<"function Object() { [native code] }">>]
\* Object.prototype itself, and its string conversion
ObjectPrototype == [t |-> "object", s |-> <<"[object Object]">>]

\* ToBoolean: undefined and the empty string are falsy
Truthy(v) ==
    CASE v.t = "undefined" -> FALSE
      [] v.t = "string" -> v.s # <<>>
      [] OTHER -> TRUE

\* String conversion, as a template literal `${v}` applies it
Interpolate(v) == v.s

Num(n) == [nan |-> FALSE, n |-> n]
NaN == [nan |-> TRUE, n |-> 0]

Minus(a, b) == IF a.nan \/ b.nan THEN NaN ELSE Num(a.n - b.n)

LessThanNaNTrue(a, b) == a.nan \/ b.nan \/ a.n < b.n
\* a < b on numbers: false as soon as one operand is NaN
LessThan(a, b) == ~a.nan /\ ~b.nan /\ a.n < b.n

\* Math.ceil(n / d) for an integer n and d > 0 (\div rounds down)
Ceil(n, d) == -((-n) \div d)

Digits == <<"0", "1", "2", "3", "4", "5", "6", "7", "8", "9">>
IsDigit(c) == \E i \in 1..Len(Digits) : Digits[i] = c
DigitVal(c) == (CHOOSE i \in 1..Len(Digits) : Digits[i] = c) - 1

RECURSIVE Decimal(_)
Decimal(s) ==
    IF s = <<>> THEN 0
    ELSE 10 * Decimal(SubSeq(s, 1, Len(s) - 1)) + DigitVal(s[Len(s)])

\* ToNumber, as the operator - applies it to its operands: a number is
\* itself, "" is 0, a string of digits is its value, another string is NaN
ToNumber(v) ==
    IF "nan" \in DOMAIN v THEN v
    ELSE IF \A i \in 1..Len(v.s) : IsDigit(v.s[i]) THEN Num(Decimal(v.s))
    ELSE NaN

\* What a call returns, or the error it throws
Ok(v) == [err |-> FALSE, val |-> v]
TypeError == [err |-> TRUE, val |-> <<"TypeError">>]

----------------------------------------------------------------------------
(* Pull requests *)

\* An array-valued field: present with its items, or absent (undefined)
Arr(items) == [present |-> TRUE, items |-> items]
Absent == [present |-> FALSE, items |-> <<>>]

MsPerDay == 1000 * 3600 * 24
HalfDay == MsPerDay \div 2

\* created_at as a Date object: its time value is a number of ms, or NaN
\* for an Invalid Date
DateOf(ms) == [kind |-> "date", time |-> Num(ms)]
InvalidDate == [kind |-> "date", time |-> NaN]
\* created_at as the raw ISO string of the REST payload: no getTime method
DateString == [kind |-> "string", time |-> NaN]

IsDate(d) == d.kind = "date"

\* The titles and URLs of the pull requests of the model
Titles == << "title1", "title2" >>
Urls == << "url1", "url2" >>

PullRequest(id, created_at, draft, labels, reviewers, teams) ==
    [ title |-> << Titles[id] >>,
      html_url |-> << Urls[id] >>,
      created_at |-> created_at,
      draft |-> draft,
      labels |-> labels,
      requested_reviewers |-> reviewers,
      requested_teams |-> teams ]

\* All sequences over S of length at most n
SeqsUpTo(S, n) == UNION { [1..k -> S] : k \in 0..n }

----------------------------------------------------------------------------
(* getPullRequestsToReview *)

\* Reading .length of an absent array throws; || evaluates its right
\* operand only when the left one is 0
ReviewPredicateThrows(pr) ==
    \/ ~pr.requested_reviewers.present
    \/ /\ Len(pr.requested_reviewers.items) = 0
       /\ ~pr.requested_teams.present

HasReviewersAlways(pr) == TRUE
HasReviewers(pr) ==
    \/ Len(pr.requested_reviewers.items) # 0
    \/ Len(pr.requested_teams.items) # 0

getPullRequestsToReview(prs) ==
    IF \E i \in 1..Len(prs) : ReviewPredicateThrows(prs[i])
    THEN TypeError
    ELSE Ok(SelectSeq(prs, HasReviewers))

----------------------------------------------------------------------------
(* getNumberOfWaitingDays, getPullRequestsWithoutLabel *)

\* date_1 is a Date; date_2 is the clock
getNumberOfWaitingDays(date_1, date_2) ==
    LET difference == Minus(date_1.time, Num(date_2))
    IN  IF difference.nan THEN NaN ELSE Num(Ceil(difference.n, MsPerDay))

HasIgnoreLabel(pr, label) ==
    LET labels == IF pr.labels.present THEN pr.labels.items ELSE <<>>
    IN  \E i \in 1..Len(labels) : labels[i] = label

WaitingLongEnoughOffByOne(created_at, wt, clock) ==
    LessThan(getNumberOfWaitingDays(created_at, clock), ToNumber(wt))
\* getNumberOfWaitingDays(pr.created_at) < waitingTime - 1
WaitingLongEnough(created_at, wt, clock) ==
    LessThan(getNumberOfWaitingDays(created_at, clock),
             Minus(ToNumber(wt), Num(1)))

\* date_1.getTime() throws when created_at is not a Date; && evaluates it
\* only for a pull request that is not a draft
AgePredicateThrows(pr) == ~pr.draft /\ ~IsDate(pr.created_at)

getPullRequestsWithoutLabel(prs, label, wt, clock) ==
    LET NoLabel(pr) == ~HasIgnoreLabel(pr, label)
        Waiting(pr) == ~pr.draft /\ WaitingLongEnough(pr.created_at, wt, clock)
        unlabelled == SelectSeq(prs, NoLabel)
    IN  IF \E i \in 1..Len(unlabelled) : AgePredicateThrows(unlabelled[i])
        THEN TypeError
        ELSE Ok(SelectSeq(unlabelled, Waiting))

----------------------------------------------------------------------------
(* Inputs of the filters *)

\* A requested reviewer { login } and a requested team { slug }
User(login) == [login |-> login]
Team(slug) == [slug |-> slug]

CreatedAts ==
    { DateOf(k * HalfDay) : k \in 0..MaxHalfDays } \cup { InvalidDate, DateString }

\* The clock: one half day before the latest created_at, so that a pull
\* request may also be dated after the clock
ClockValues == { (MaxHalfDays - 1) * HalfDay }

FilterLabels == { Absent, Arr(<< <<"bug">> >>), Arr(<< <<"bug">>, <<"wip">> >>) }

FilterPRs ==
    { PullRequest(1, c, d, l, Arr(<< User(<<"a">>) >>), Arr(<<>>)) :
        c \in CreatedAts, d \in BOOLEAN, l \in FilterLabels }

WaitingTimes == { Num(n) : n \in 0..MaxWaitingTime }

Unused == <<>>

InitFilter ==
    /\ pc = "start"
    /\ pullRequests \in SeqsUpTo(FilterPRs, MaxPRs)
    /\ ignoreLabel \in { <<"wip">>, <<>> }
    /\ waitingTime \in WaitingTimes
    /\ now \in ClockValues
    /\ github2providerString = Unused
    /\ github2provider = Unused
    /\ pr2user = Unused
    /\ provider = Unused
    /\ ret = Unused
    /\ fetchCalls = 0
    /\ sendCalls = 0
    /\ sent = <<>>
    /\ failedMsgs = <<>>
    /\ infoLog = <<>>

CallGetPullRequestsWithoutLabel ==
    /\ pc = "start"
    /\ pc' = "done"
    /\ ret' = getPullRequestsWithoutLabel(pullRequests, ignoreLabel, waitingTime, now)
    /\ UNCHANGED << pullRequests, ignoreLabel, waitingTime, now,
                    github2providerString, github2provider, pr2user, provider,
                    fetchCalls, sendCalls, sent, failedMsgs, infoLog >>

NextFilter == CallGetPullRequestsWithoutLabel

SpecFilter == InitFilter /\ [][NextFilter]_vars

----------------------------------------------------------------------------
(* Claims about getPullRequestsWithoutLabel *)

Done == pc = "done"
Returned == pc = "done" /\ ~ret.err

\* The k with (k - 1) days < ms <= k days
DaysRoundedUp(ms) ==
    CHOOSE k \in -(MaxHalfDays + 2)..(MaxHalfDays + 2) :
        k * MsPerDay >= ms /\ (k - 1) * MsPerDay < ms

LabelNamesOf(pr) ==
    IF pr.labels.present
    THEN { pr.labels.items[i] : i \in 1..Len(pr.labels.items) }
    ELSE {}

ValidDate(pr) == IsDate(pr.created_at) /\ ~pr.created_at.time.nan
MalformedDate(pr) == IsDate(pr.created_at) /\ pr.created_at.time.nan
Unlabelled(pr) == ignoreLabel \notin LabelNamesOf(pr)

\* The three conditions of the Eligibility Filter
Eligible(pr) ==
    /\ Unlabelled(pr)
    /\ pr.draft = FALSE
    /\ ValidDate(pr)
    /\ ~ToNumber(waitingTime).nan
    /\ DaysRoundedUp(pr.created_at.time.n - now) < ToNumber(waitingTime).n - 1

\* out is the subsequence of in made of the elements at the indices Kept
IsSubsequenceAt(out, in, Kept) ==
    /\ Len(out) = Cardinality(Kept)
    /\ \A i \in Kept : out[Cardinality({ j \in Kept : j <= i })] = in[i]

AllDates ==
    \A i \in 1..Len(pullRequests) : IsDate(pullRequests[i].created_at)

OpenedSameDay(pr) ==
    /\ ValidDate(pr)
    /\ pr.created_at.time.n <= now
    /\ now - pr.created_at.time.n < MsPerDay

\* C7: a pull request opened the same day as the run is never in the output
\* of getPullRequestsWithoutLabel, for every waitingTime.
C7_SameDayNeverIncluded ==
    Returned => \A i \in 1..Len(ret.val) : ~OpenedSameDay(ret.val[i])

\* C8 as stated: a non-draft pull request without the ignore label whose
\* created_at is malformed is always included in the output.
C8_MalformedAlwaysEligible ==
    Returned =>
        \A i \in 1..Len(pullRequests) :
            ( /\ MalformedDate(pullRequests[i])
              /\ ~pullRequests[i].draft
              /\ Unlabelled(pullRequests[i]) )
            => \E j \in 1..Len(ret.val) : ret.val[j] = pullRequests[i]

\* C8 amended: on an Invalid Date the filter raises no error, the age is
\* not-a-number, and the pull request is never included in the output.
C8_MalformedNeverEligible ==
    Done =>
        /\ AllDates => ~ret.err
        /\ \A i \in 1..Len(pullRequests) :
              MalformedDate(pullRequests[i]) =>
                  getNumberOfWaitingDays(pullRequests[i].created_at, now) = NaN
        /\ ~ret.err => \A j \in 1..Len(ret.val) : ~MalformedDate(ret.val[j])

\* A call that returned a pull request while dropping a non-draft,
\* unlabelled one whose created_at is an Invalid Date
C8_Witness ==
    /\ Returned
    /\ Len(ret.val) = 1
    /\ \E i \in 1..Len(pullRequests) :
          /\ MalformedDate(pullRequests[i])
          /\ ~pullRequests[i].draft
          /\ Unlabelled(pullRequests[i])

----------------------------------------------------------------------------
(* getPullRequestsToReview on its own *)

ReviewerLists ==
    { Absent, Arr(<<>>), Arr(<< User(<<"a">>) >>),
      Arr(<< User(<<"a">>), User(<<"b">>) >>) }
TeamLists == { Absent, Arr(<<>>), Arr(<< Team(<<"team">>) >>) }

ReviewPRs ==
    { PullRequest(id, DateOf(0), FALSE, Arr(<<>>), r, t) :
        id \in 1..2, r \in ReviewerLists, t \in TeamLists }

InitReview ==
    /\ pc = "start"
    /\ pullRequests \in SeqsUpTo(ReviewPRs, MaxPRs)
    /\ ignoreLabel = Unused
    /\ waitingTime = Unused
    /\ now = 0
    /\ github2providerString = Unused
    /\ github2provider = Unused
    /\ pr2user = Unused
    /\ provider = Unused
    /\ ret = Unused
    /\ fetchCalls = 0
    /\ sendCalls = 0
    /\ sent = <<>>
    /\ failedMsgs = <<>>
    /\ infoLog = <<>>

CallGetPullRequestsToReview ==
    /\ pc = "start"
    /\ pc' = "done"
    /\ ret' = getPullRequestsToReview(pullRequests)
    /\ UNCHANGED << pullRequests, ignoreLabel, waitingTime, now,
                    github2providerString, github2provider, pr2user, provider,
                    fetchCalls, sendCalls, sent, failedMsgs, infoLog >>

NextReview == CallGetPullRequestsToReview

SpecReview == InitReview /\ [][NextReview]_vars

\* Number of items of an array field, an absent field counting as zero
LengthOrZero(field) == IF field.present THEN Len(field.items) ELSE 0

Pending(pr) ==
    LengthOrZero(pr.requested_reviewers) + LengthOrZero(pr.requested_teams)

\* C5: getPullRequestsToReview raises no error, also when requested_reviewers
\* or requested_teams is absent, and returns exactly the pull requests with
\* at least one requested reviewer or team, an absent field counting as
\* zero-length.
C5_AbsentFieldsAreEmpty ==
    Done =>
        /\ ~ret.err
        /\ IsSubsequenceAt(ret.val, pullRequests,
               { i \in 1..Len(pullRequests) : Pending(pullRequests[i]) > 0 })

----------------------------------------------------------------------------
(* createPr2UserArray *)

Recipient(pr, login) == [url |-> pr.html_url, title |-> pr.title, login |-> login]

ReviewerRecipients(pr) ==
    [ i \in 1..Len(pr.requested_reviewers.items) |->
        Recipient(pr, pr.requested_reviewers.items[i].login) ]
TeamRecipients(pr) ==
    [ i \in 1..Len(pr.requested_teams.items) |->
        Recipient(pr, pr.requested_teams.items[i].slug) ]

RecipientsTeamsFirst(pr) == TeamRecipients(pr) \o ReviewerRecipients(pr)
\* The two inner loops: the reviewers' entries, then the teams'
Recipients(pr) == ReviewerRecipients(pr) \o TeamRecipients(pr)

\* for...of over an absent (undefined) array throws
ExpandThrows(pr) == ~pr.requested_reviewers.present \/ ~pr.requested_teams.present

RECURSIVE Expand(_)
Expand(prs) ==
    IF prs = <<>> THEN <<>> ELSE Recipients(Head(prs)) \o Expand(Tail(prs))

\* The outer loop stops at the first pull request whose loops throw
createPr2UserArray(prs) ==
    IF \E i \in 1..Len(prs) : ExpandThrows(prs[i])
    THEN TypeError
    ELSE Ok(Expand(prs))

InitExpand == InitReview

CallCreatePr2UserArray ==
    /\ pc = "start"
    /\ pc' = "done"
    /\ ret' = createPr2UserArray(pullRequests)
    /\ UNCHANGED << pullRequests, ignoreLabel, waitingTime, now,
                    github2providerString, github2provider, pr2user, provider,
                    fetchCalls, sendCalls, sent, failedMsgs, infoLog >>

NextExpand == CallCreatePr2UserArray

SpecExpand == InitExpand /\ [][NextExpand]_vars

AllArraysPresent ==
    \A i \in 1..Len(pullRequests) :
        /\ pullRequests[i].requested_reviewers.present
        /\ pullRequests[i].requested_teams.present

RECURSIVE PendingBefore(_)
\* Number of pending reviewers and teams of the pull requests before the p-th
PendingBefore(p) ==
    IF p <= 1 THEN 0 ELSE PendingBefore(p - 1) + Pending(pullRequests[p - 1])

\* C4: createPr2UserArray returns sum(|requested_reviewers| +
\* |requested_teams|) entries: in pull-request order, one { url, title, login }
\* entry per requested reviewer, then one per requested team, each with the
\* html_url and title of its own pull request, nothing dropped, duplicated or
\* deduplicated.
C4_ExpansionIsExact ==
    Done =>
        /\ AllArraysPresent => ~ret.err
        /\ ~ret.err =>
             /\ Len(ret.val) = PendingBefore(Len(pullRequests) + 1)
             /\ \A p \in 1..Len(pullRequests) :
                  LET pr == pullRequests[p]
                      nr == Len(pr.requested_reviewers.items)
                  IN  /\ \A r \in 1..nr :
                            ret.val[PendingBefore(p) + r] =
                              [ url |-> pr.html_url, title |-> pr.title,
                                login |-> pr.requested_reviewers.items[r].login ]
                      /\ \A t \in 1..Len(pr.requested_teams.items) :
                            ret.val[PendingBefore(p) + nr + t] =
                              [ url |-> pr.html_url, title |-> pr.title,
                                login |-> pr.requested_teams.items[t].slug ]

\* Two different pull requests that request the same reviewer, the first
\* one also a second reviewer and a team, expanded into five entries
C4_Witness ==
    /\ Returned
    /\ Len(pullRequests) = 2
    /\ pullRequests[1].title # pullRequests[2].title
    /\ Len(pullRequests[1].requested_reviewers.items) = 2
    /\ Len(pullRequests[1].requested_teams.items) = 1
    /\ Len(pullRequests[2].requested_reviewers.items) = 2
    /\ Len(ret.val) = 5

----------------------------------------------------------------------------
(* stringToObject *)

\* The property names every object inherits from Object.prototype that the
\* model distinguishes, each one token
ConstructorName == << "constructor" >>
ProtoName == << "__proto__" >>

Positions(s, c) == { i \in 1..Len(s) : s[i] = c }
Min(S) == CHOOSE x \in S : \A y \in S : x <= y
Max(S) == CHOOSE x \in S : \A y \in S : x >= y

RECURSIVE Split(_, _)
\* String.prototype.split with a one-character separator: every occurrence
\* of the separator splits
Split(s, sep) ==
    IF Positions(s, sep) = {} THEN << s >>
    ELSE LET i == Min(Positions(s, sep))
         IN  << SubSeq(s, 1, i - 1) >> \o Split(SubSeq(s, i + 1, Len(s)), sep)

EmptyObject == << >>

SetPropertyKeepFirst(map, key, value) ==
    IF key = ProtoName \/ key \in DOMAIN map THEN map
    ELSE [ k \in DOMAIN map \cup { key } |-> IF k = key THEN value ELSE map[k] ]
\* map[key] = value, value a string or undefined: the inherited __proto__
\* setter ignores such a value and creates no property
SetProperty(map, key, value) ==
    IF key = ProtoName THEN map
    ELSE [ k \in DOMAIN map \cup { key } |-> IF k = key THEN value ELSE map[k] ]

\* map[key]: the own property, else the inherited one, else undefined
GetProperty(map, key) ==
    IF key \in DOMAIN map THEN map[key]
    ELSE IF key = ConstructorName THEN ObjectFunction
    ELSE IF key = ProtoName THEN ObjectPrototype
    ELSE Undefined

\* const [github, provider] = user.split(":")
Destructure(user) ==
    LET parts == Split(user, ":")
    IN  [ github |-> parts[1],
          provider |-> IF Len(parts) >= 2 THEN Str(parts[2]) ELSE Undefined ]

RECURSIVE AssignUsers(_, _)
\* users.forEach(...), from the first segment to the last
AssignUsers(map, users) ==
    IF users = <<>> THEN map
    ELSE LET pair == Destructure(Head(users))
         IN  AssignUsers(SetProperty(map, pair.github, pair.provider), Tail(users))

\* str is a string or undefined
stringToObject(str) ==
    IF ~Truthy(str) THEN EmptyObject
    ELSE AssignUsers(EmptyObject, Split(str.s, ","))

Alphabet == { "a", "b", ":", ",", "__proto__" }

ConfigStrings(n) == { Undefined } \cup { Str(s) : s \in SeqsUpTo(Alphabet, n) }

InitParse ==
    /\ pc = "start"
    /\ pullRequests = Unused
    /\ ignoreLabel = Unused
    /\ waitingTime = Unused
    /\ now = 0
    /\ github2providerString \in ConfigStrings(MaxLen)
    /\ github2provider = Unused
    /\ pr2user = Unused
    /\ provider = Unused
    /\ ret = Unused
    /\ fetchCalls = 0
    /\ sendCalls = 0
    /\ sent = <<>>
    /\ failedMsgs = <<>>
    /\ infoLog = <<>>

CallStringToObject ==
    /\ pc = "start"
    /\ pc' = "done"
    /\ ret' = Ok(stringToObject(github2providerString))
    /\ UNCHANGED << pullRequests, ignoreLabel, waitingTime, now,
                    github2providerString, github2provider, pr2user, provider,
                    fetchCalls, sendCalls, sent, failedMsgs, infoLog >>

NextParse == CallStringToObject

SpecParse == InitParse /\ [][NextParse]_vars

\* The segments of s between its commas, as pairs <<first, last>> of
\* positions (last = first - 1 for an empty segment)
SegmentsOf(s) ==
    LET cuts == Positions(s, ",") \cup { 0, Len(s) + 1 }
    IN  { << lo + 1, hi - 1 >> : lo \in cuts \ { Len(s) + 1 },
                                 hi \in cuts \ { 0 } } \cap
        { g \in (1..Len(s) + 1) \X (0..Len(s)) :
            /\ g[1] <= g[2] + 1
            /\ \A i \in g[1]..g[2] : s[i] # "," }

\* The positions of the colons of segment g of s
Colons(s, g) == { i \in g[1]..g[2] : s[i] = ":" }

\* The text of segment g before its first colon
KeyOf(s, g) ==
    IF Colons(s, g) = {} THEN SubSeq(s, g[1], g[2])
    ELSE SubSeq(s, g[1], Min(Colons(s, g)) - 1)

\* The whole text of segment g after its first colon
RestAfterFirstColon(s, g) ==
    IF Colons(s, g) = {} THEN Undefined
    ELSE Str(SubSeq(s, Min(Colons(s, g)) + 1, g[2]))

\* The text of segment g between its first colon and its second one, or its
\* end when it has only one
UpToSecondColon(s, g) ==
    IF Colons(s, g) = {} THEN Undefined
    ELSE LET first == Min(Colons(s, g))
             later == Colons(s, g) \ { first }
         IN  Str(SubSeq(s, first + 1,
                        IF later = {} THEN g[2] ELSE Min(later) - 1))

\* map holds, for each key of a segment of s outside Reserved, the ID that
\* IdOf gives for the last segment with that key, and nothing else
ParsedAs(map, s, IdOf(_, _), Reserved) ==
    /\ DOMAIN map = { KeyOf(s, g) : g \in SegmentsOf(s) } \ Reserved
    /\ \A k \in DOMAIN map :
          LET last == CHOOSE g \in SegmentsOf(s) :
                        /\ KeyOf(s, g) = k
                        /\ \A h \in SegmentsOf(s) : KeyOf(s, h) = k => h[1] <= g[1]
          IN  map[k] = IdOf(s, last)

EmptyOrAbsent(str) == str = Undefined \/ str = Str(<<>>)

\* C3 as stated (for keys other than __proto__): stringToObject splits on ','
\* and splits each segment on the first ':' only, the ID being the whole
\* remaining text; a segment without ':' maps its key to an absent ID; the
\* last occurrence of a key wins; an empty or absent string yields the empty
\* mapping; no input raises an error.
C3_SplitOnFirstColon ==
    Done =>
        /\ ~ret.err
        /\ IF EmptyOrAbsent(github2providerString)
           THEN DOMAIN ret.val = {}
           ELSE ParsedAs(ret.val, github2providerString.s, RestAfterFirstColon,
                         { ProtoName })

\* C3 amended: each segment is split on every ':' and the ID is the text
\* between the first ':' and the second (or the end of the segment); a
\* segment whose key is __proto__ adds no key; the rest as stated.
C3_SplitOnEveryColon ==
    Done =>
        /\ ~ret.err
        /\ IF EmptyOrAbsent(github2providerString)
           THEN DOMAIN ret.val = {}
           ELSE ParsedAs(ret.val, github2providerString.s, UpToSecondColon,
                         { ProtoName })

\* The string "a:b:a" parsed into { a: "b" }
C3_Witness ==
    /\ Done
    /\ github2providerString = Str(<< "a", ":", "b", ":", "a" >>)
    /\ DOMAIN ret.val = { << "a" >> }
    /\ ret.val[<< "a" >>] = Str(<< "b" >>)

----------------------------------------------------------------------------
(* prettyMessage *)

HasMappingOwnKey(map, login) == login \in DOMAIN map
\* github2provider[obj.login] ? ... : ...
HasMapping(map, login) == Truthy(GetProperty(map, login))

\* `<@${github2provider[obj.login]}>` or `@${obj.login}`
SlackMention(map, login) ==
    IF HasMapping(map, login)
    THEN << "<@" >> \o Interpolate(GetProperty(map, login)) \o << ">" >>
    ELSE << "@" >> \o login

\* `<at>${obj.login}</at>` or `@${obj.login}`
TeamsMention(map, login) ==
    IF HasMapping(map, login)
    THEN << "<at>" >> \o login \o << "</at>" >>
    ELSE << "@" >> \o login

SlackLine(mention, obj) ==
    << "Hey " >> \o mention \o << ", the PR \"" >> \o obj.title
        \o << "\" is waiting for your review: " >> \o obj.url \o << "\n" >>

TeamsLineNoBreak(mention, obj) ==
    << "Hey " >> \o mention \o << ", the PR \"" >> \o obj.title
        \o << "\" is waiting for your review: ", "[" >> \o obj.url \o << "](" >>
        \o obj.url \o << ")", "\n" >>
TeamsLine(mention, obj) ==
    << "Hey " >> \o mention \o << ", the PR \"" >> \o obj.title
        \o << "\" is waiting for your review: ", "[" >> \o obj.url \o << "](" >>
        \o obj.url \o << ")", " ", " ", "\n" >>

\* The switch: what one recipient adds to the message
Contribution(obj, map, tag) ==
    CASE tag = "slack" -> SlackLine(SlackMention(map, obj.login), obj)
      [] tag = "msteams" -> TeamsLine(TeamsMention(map, obj.login), obj)
      [] OTHER -> <<>>

RECURSIVE prettyMessage(_, _, _)
prettyMessage(objs, map, tag) ==
    IF objs = <<>> THEN <<>>
    ELSE Contribution(Head(objs), map, tag) \o prettyMessage(Tail(objs), map, tag)

RecipientLogins == { << "a" >>, << "b" >>, ConstructorName }

PrettyRecipients ==
    { [ url |-> << Urls[id] >>, title |-> << Titles[id] >>, login |-> l ] :
        id \in 1..2, l \in RecipientLogins }

\* The identity maps: every object with keys among MapKeys, each mapped to
\* undefined, to "" or to an ID
MapKeys == { << "a" >>, << "b" >>, ConstructorName }
MapValues == { Undefined, Str(<<>>), Str(<< "U1" >>) }
IdentityMaps == UNION { [ K -> MapValues ] : K \in SUBSET MapKeys }

ProviderTags == { "slack", "msteams", "teams" }

InitPretty ==
    /\ pc = "start"
    /\ pullRequests = Unused
    /\ ignoreLabel = Unused
    /\ waitingTime = Unused
    /\ now = 0
    /\ github2providerString = Unused
    /\ github2provider \in IdentityMaps
    /\ pr2user \in SeqsUpTo(PrettyRecipients, MaxRecipients)
    /\ provider \in ProviderTags
    /\ ret = Unused
    /\ fetchCalls = 0
    /\ sendCalls = 0
    /\ sent = <<>>
    /\ failedMsgs = <<>>
    /\ infoLog = <<>>

CallPrettyMessage ==
    /\ pc = "start"
    /\ pc' = "done"
    /\ ret' = Ok(prettyMessage(pr2user, github2provider, provider))
    /\ UNCHANGED << pullRequests, ignoreLabel, waitingTime, now,
                    github2providerString, github2provider, pr2user, provider,
                    fetchCalls, sendCalls, sent, failedMsgs, infoLog >>

NextPretty == CallPrettyMessage

SpecPretty == InitPretty /\ [][NextPretty]_vars

\* The k-th line of text: from after the (k - 1)-th "\n" to the k-th "\n"
LineOf(text, k) ==
    LET ends == Positions(text, "\n")
        end == CHOOSE e \in ends : Cardinality({ x \in ends : x <= e }) = k
        before == { x \in ends : x < end }
    IN  SubSeq(text, IF before = {} THEN 1 ELSE Max(before) + 1, end)

StartsWith(s, prefix) ==
    Len(s) >= Len(prefix) /\ SubSeq(s, 1, Len(prefix)) = prefix
EndsWith(s, suffix) ==
    Len(s) >= Len(suffix) /\ SubSeq(s, Len(s) - Len(suffix) + 1, Len(s)) = suffix

\* The text has exactly one "\n"-terminated line per recipient
OneLinePerRecipient(text, objs) ==
    /\ Cardinality(Positions(text, "\n")) = Len(objs)
    /\ text # <<>> => text[Len(text)] = "\n"

Recognized == provider \in { "slack", "msteams" }

\* The provider-specific mention of a login whose mapped ID is id
ProviderMention(login, id) ==
    IF provider = "slack" THEN << "<@" >> \o id \o << ">" >>
    ELSE << "<at>" >> \o login \o << "</at>" >>

Fallback(login) == << "@" >> \o login

Greets(line, mention) == StartsWith(line, << "Hey " >> \o mention \o << ", the PR \"" >>)

\* The line greets some provider-specific mention of the login
GreetsProviderMention(line, login) ==
    /\ ~Greets(line, Fallback(login))
    /\ \E n \in 0..Len(line) :
          n + 3 <= Len(line) /\ Greets(line, ProviderMention(login, SubSeq(line, 3, n + 2)))

\* C2 as stated (for logins that name no inherited property): prettyMessage
\* renders the provider-specific mention if and only if the recipient's login
\* is a key in the IdentityMap, and the literal @login fallback if and only
\* if it is not, also when the key is present with an absent or empty ID.
C2_MentionIffKey ==
    (Done /\ Recognized /\ OneLinePerRecipient(ret.val, pr2user)) =>
        \A i \in { j \in 1..Len(pr2user) :
                      pr2user[j].login \notin { ConstructorName, ProtoName } } :
            LET line == LineOf(ret.val, i)
                login == pr2user[i].login
            IN  /\ GreetsProviderMention(line, login) <=> login \in DOMAIN github2provider
                /\ Greets(line, Fallback(login)) <=> login \notin DOMAIN github2provider

\* The login is a key mapped to a non-empty ID, or is no key and names a
\* property every object inherits
Mentionable(map, login) ==
    \/ /\ login \in DOMAIN map
       /\ map[login].t = "string"
       /\ Len(map[login].s) > 0
    \/ /\ login \notin DOMAIN map
       /\ login \in { ConstructorName, ProtoName }

\* C2 amended: prettyMessage renders the provider-specific mention if and
\* only if the lookup of the login in the IdentityMap is truthy, that is the
\* login is a key with a non-empty ID (or names an inherited property such
\* as "constructor"); otherwise, also for a key with an absent or empty ID,
\* it renders the literal @login fallback.  The slack mention embeds the ID.
C2_MentionIffTruthyId ==
    (Done /\ Recognized /\ OneLinePerRecipient(ret.val, pr2user)) =>
        \A i \in 1..Len(pr2user) :
            LET line == LineOf(ret.val, i)
                login == pr2user[i].login
                map == github2provider
            IN  /\ GreetsProviderMention(line, login) <=> Mentionable(map, login)
                /\ Greets(line, Fallback(login)) <=> ~Mentionable(map, login)
                /\ (login \in DOMAIN map /\ Mentionable(map, login)) =>
                       Greets(line, ProviderMention(login, map[login].s))

\* A slack message for two recipients under the map parsed from "a,b:U1":
\* the first one's login is a key with an absent ID, the second one's a key
\* with a non-empty ID
C2_Witness ==
    /\ Done
    /\ provider = "slack"
    /\ Len(pr2user) = 2
    /\ pr2user[1].login \in DOMAIN github2provider
    /\ ~Mentionable(github2provider, pr2user[1].login)
    /\ pr2user[2].login \in DOMAIN github2provider
    /\ Mentionable(github2provider, pr2user[2].login)
    /\ github2provider = stringToObject(Str(<< "a", ",", "b", ":", "U1" >>))

\* The mentions a line for the recipient may carry
MentionForms(obj) ==
    { Fallback(obj.login), << "<at>" >> \o obj.login \o << "</at>" >> }
        \cup { << "<@" >> \o v.s \o << ">" >> :
                 v \in { GetProperty(github2provider, obj.login) } }

\* C9: prettyMessage returns the concatenation, in recipient order, of one
\* line per Recipient for slack (ending "\n") and msteams (ending with two
\* spaces and "\n"), and the empty string for any other provider tag.
C9_OneLinePerRecipient ==
    Done =>
        /\ ~ret.err
        /\ IF Recognized
           THEN /\ OneLinePerRecipient(ret.val, pr2user)
                /\ \A i \in 1..Len(pr2user) :
                     LET line == LineOf(ret.val, i)
                         obj == pr2user[i]
                     IN  \E m \in MentionForms(obj) :
                            line = << "Hey " >> \o m \o << ", the PR \"" >> \o obj.title
                                   \o << "\" is waiting for your review: " >>
                                   \o ( IF provider = "slack"
                                        THEN obj.url \o << "\n" >>
                                        ELSE << "[" >> \o obj.url \o << "](" >> \o obj.url
                                             \o << ")", " ", " ", "\n" >> )
           ELSE ret.val = <<>>

\* A msteams message for two different recipients
C9_Witness ==
    /\ Done
    /\ provider = "msteams"
    /\ Len(pr2user) = 2
    /\ pr2user[1] # pr2user[2]
    /\ Len(ret.val) > 0

----------------------------------------------------------------------------
(* getPullRequestsReviewersCount, formatSlackMessage, main *)

RECURSIVE SumReviewers(_)
SumReviewers(prs) ==
    IF prs = <<>> THEN 0
    ELSE Len(Head(prs).requested_reviewers.items) + SumReviewers(Tail(prs))

\* Reading .length of an absent requested_reviewers throws
getPullRequestsReviewersCount(prs) ==
    IF \E i \in 1..Len(prs) : ~prs[i].requested_reviewers.present
    THEN TypeError
    ELSE Ok(SumReviewers(prs))

formatSlackMessage(channel, message) ==
    [ channel |-> channel,
      username |-> "Pull Request reviews reminder",
      text |-> message ]

\* The input "channel"
Channel == << "#reviews" >>

\* A message of the log, with the numbers it interpolates
Info(msg, args) == [msg |-> msg, args |-> args]

ShouldSendAlways(prs) == TRUE
\* if (pullRequestsWithoutLabel.length)
ShouldSend(prs) == Len(prs) # 0

\* The message of the error a rejected request carries
RequestFailed == << "Request failed" >>

MainPRs ==
    { PullRequest(1, c, d, l, r, t) :
        c \in { DateOf(0), DateString },
        d \in BOOLEAN,
        l \in { Arr(<<>>), Arr(<< << "wip" >> >>) },
        r \in { Arr(<<>>), Arr(<< User(<< "a" >>) >>) },
        t \in { Absent, Arr(<<>>), Arr(<< Team(<< "team" >>) >>) } }

\* The run before main is called: the inputs core.getInput will return
InitMain ==
    /\ pc = "start"
    /\ pullRequests = Unused
    /\ ignoreLabel \in { << "wip" >>, <<>> }
    /\ waitingTime \in { Str(<<>>), Str(<< "2" >>) }
    /\ now \in ClockValues
    /\ github2providerString \in { Str(<<>>), Str(<< "a", ":", "b" >>) }
    /\ github2provider = Unused
    /\ pr2user = Unused
    /\ provider = Unused
    /\ ret = Unused
    /\ fetchCalls = 0
    /\ sendCalls = 0
    /\ sent = <<>>
    /\ failedMsgs = <<>>
    /\ infoLog = <<>>

\* main up to the first await: the inputs are read and the fetch is issued
MainStart ==
    /\ pc = "start"
    /\ pc' = "fetching"
    /\ infoLog' = Append(infoLog, Info("Getting open pull requests...", <<>>))
    /\ fetchCalls' = fetchCalls + 1
    /\ UNCHANGED << pullRequests, ignoreLabel, waitingTime, now,
                    github2providerString, github2provider, pr2user, provider,
                    ret, sendCalls, sent, failedMsgs >>

\* The fetch is rejected: the catch block reports the failure
FetchFails ==
    /\ pc = "fetching"
    /\ pc' = "failed"
    /\ failedMsgs' = Append(failedMsgs, RequestFailed)
    /\ UNCHANGED << pullRequests, ignoreLabel, waitingTime, now,
                    github2providerString, github2provider, pr2user, provider,
                    ret, fetchCalls, sendCalls, sent, infoLog >>

\* The fetch returns data: main runs up to the second await, to its end when
\* nothing is waiting, or to the catch block when a step throws
FetchReturns ==
    /\ pc = "fetching"
    /\ \E data \in SeqsUpTo(MainPRs, MaxPRs) :
        LET totalReviewers == getPullRequestsReviewersCount(data)
            pullRequestsToReview == getPullRequestsToReview(data)
            pullRequestsWithoutLabel ==
                getPullRequestsWithoutLabel(pullRequestsToReview.val,
                                            ignoreLabel, waitingTime, now)
            log1 == Append(infoLog,
                        Info("There are {} open pull requests and {} reviewers",
                             << Len(data), totalReviewers.val >>))
            log2 == Append(log1,
                        Info("There are {} pull requests waiting for reviews",
                             << Len(pullRequestsWithoutLabel.val) >>))
            expanded == createPr2UserArray(pullRequestsWithoutLabel.val)
            map == stringToObject(github2providerString)
            messageText == prettyMessage(expanded.val, map, "slack")
            messageObject == formatSlackMessage(Channel, messageText)
        IN  /\ pullRequests' = data
            /\ IF totalReviewers.err
               THEN /\ pc' = "failed"
                    /\ failedMsgs' = Append(failedMsgs, TypeError.val)
                    /\ UNCHANGED << infoLog, pr2user, github2provider,
                                    sendCalls, sent >>
               ELSE IF pullRequestsToReview.err \/ pullRequestsWithoutLabel.err
               THEN /\ pc' = "failed"
                    /\ failedMsgs' = Append(failedMsgs, TypeError.val)
                    /\ infoLog' = log1
                    /\ UNCHANGED << pr2user, github2provider, sendCalls, sent >>
               ELSE IF ~ShouldSend(pullRequestsWithoutLabel.val)
               THEN /\ pc' = "completed"
                    /\ infoLog' = log2
                    /\ UNCHANGED << pr2user, github2provider, sendCalls, sent,
                                    failedMsgs >>
               ELSE IF expanded.err
               THEN /\ pc' = "failed"
                    /\ failedMsgs' = Append(failedMsgs, TypeError.val)
                    /\ infoLog' = log2
                    /\ UNCHANGED << pr2user, github2provider, sendCalls, sent >>
               ELSE /\ pc' = "sending"
                    /\ infoLog' = log2
                    /\ pr2user' = expanded.val
                    /\ github2provider' = map
                    /\ sendCalls' = sendCalls + 1
                    /\ sent' = Append(sent, messageObject)
                    /\ UNCHANGED failedMsgs
    /\ UNCHANGED << ignoreLabel, waitingTime, now, github2providerString,
                    provider, ret, fetchCalls >>

\* The send is rejected: the catch block reports the failure
SendFails ==
    /\ pc = "sending"
    /\ pc' = "failed"
    /\ failedMsgs' = Append(failedMsgs, RequestFailed)
    /\ UNCHANGED << pullRequests, ignoreLabel, waitingTime, now,
                    github2providerString, github2provider, pr2user, provider,
                    ret, fetchCalls, sendCalls, sent, infoLog >>

\* The send returns: main logs the success and ends
SendReturns ==
    /\ pc = "sending"
    /\ pc' = "completed"
    /\ infoLog' = Append(infoLog, Info("Notification sent successfully!", <<>>))
    /\ UNCHANGED << pullRequests, ignoreLabel, waitingTime, now,
                    github2providerString, github2provider, pr2user, provider,
                    ret, fetchCalls, sendCalls, sent, failedMsgs >>

NextMain == MainStart \/ FetchFails \/ FetchReturns \/ SendFails \/ SendReturns

SpecMain == InitMain /\ [][NextMain]_vars

----------------------------------------------------------------------------
(* Claims about main *)

Logged(msg) == \E i \in 1..Len(infoLog) : infoLog[i].msg = msg

\* The data of the fetch was reported: the fetch had returned
FetchReported == Logged("There are {} open pull requests and {} reviewers")
SuccessLogged == Logged("Notification sent successfully!")

\* The length of the eligible list, as main reported it
WaitingReported ==
    LET i == CHOOSE j \in 1..Len(infoLog) :
                 infoLog[j].msg = "There are {} pull requests waiting for reviews"
    IN  infoLog[i].args[1]

\* C6: a run of main ends completed, with the send performed once if the
\* eligible list was non-empty and never if it was empty, and only after the
\* fetch returned, or failed, with exactly one failure message; no send
\* follows a failed fetch, no success is logged after a failed send, and no
\* fetch or send is retried.
C6_CompletedOrFailed ==
    /\ fetchCalls <= 1
    /\ sendCalls <= 1
    /\ Len(sent) = sendCalls
    /\ Len(failedMsgs) <= 1
    /\ pc \in { "completed", "failed" } <=> ~ENABLED NextMain
    /\ pc = "completed" =>
          /\ failedMsgs = <<>>
          /\ Logged("There are {} pull requests waiting for reviews")
          /\ sendCalls = IF WaitingReported > 0 THEN 1 ELSE 0
          /\ SuccessLogged <=> sendCalls = 1
    /\ pc = "failed" => Len(failedMsgs) = 1 /\ ~SuccessLogged
    /\ pc \notin { "completed", "failed" } => failedMsgs = <<>> /\ ~SuccessLogged
    /\ sendCalls > 0 => fetchCalls = 1 /\ FetchReported
    /\ ~FetchReported => sendCalls = 0

\* A run that failed on its send: one send, one failure message, no success
C6_Witness ==
    /\ pc = "failed"
    /\ sendCalls = 1
    /\ failedMsgs = << RequestFailed >>
    /\ ~SuccessLogged

RECURSIVE SumPending(_)
\* The pending reviewers and teams of the pull requests at the indices S
SumPending(S) ==
    IF S = {} THEN 0
    ELSE LET i == CHOOSE x \in S : TRUE
         IN  Pending(pullRequests[i]) + SumPending(S \ { i })

\* C10: whenever main performs the send, the payload text is non-empty and
\* holds exactly one Slack line per pending reviewer or team of the eligible
\* pull requests.
C10_SentTextNonEmpty ==
    sendCalls > 0 =>
        LET text == sent[1].text
            eligible == { i \in 1..Len(pullRequests) :
                            /\ Pending(pullRequests[i]) > 0
                            /\ Eligible(pullRequests[i]) }
            lines == Cardinality(Positions(text, "\n"))
        IN  /\ text # <<>>
            /\ text[Len(text)] = "\n"
            /\ lines = SumPending(eligible)
            /\ \A k \in 1..lines :
                  /\ StartsWith(LineOf(text, k), << "Hey " >>)
                  /\ ~EndsWith(LineOf(text, k), << " ", "\n" >>)

\* A completed run that sent one notification of three lines for two
\* eligible pull requests
C10_Witness ==
    /\ pc = "completed"
    /\ sendCalls = 1
    /\ Len(pullRequests) = 2
    /\ Cardinality(Positions(sent[1].text, "\n")) = 3

====
